---- MODULE Spec2Model ----
(***************************************************************************)
(* The component build of scripts/build.js: glob the component files,      *)
(* process each one (parse, allow-list check, minify), serialize the       *)
(* components, splice them into the template script, minify, and write     *)
(* three artifacts.                                                        *)
(*                                                                         *)
(* Text.  A JavaScript string is modelled as a sequence of pieces; the     *)
(* string is the concatenation of its pieces.  In the texts a pattern of   *)
(* the source is matched against, a piece is one punctuation character (a  *)
(* member of NonWord) or a run of the characters [A-Za-z0-9_-], and in CSS *)
(* text every run is a maximal one.  These texts are split so that every   *)
(* literal a regular expression or a replace of the source looks for (a    *)
(* property name before a colon, the words class and transition, the       *)
(* double quote, the placeholder, the dollar sign and the character after  *)
(* it) is a piece of its own, so a match on the characters is a match on   *)
(* the pieces and the reverse.  A component name is split into single      *)
(* characters, so that toLowerCase acts on it character by character.      *)
(* Fixed text that is only written out (a percent escape, the title of the *)
(* link) is kept as one piece.                                             *)
(*                                                                         *)
(* Libraries.  CSS.minify, JS.minify and HTMLMinifier.minify are third     *)
(* party code.  A style is given by its structure and CSS.minify writes it *)
(* in the minified form of clean-css; whether the minifier reports errors  *)
(* for a style, and whether uglify-js reports an error for a script, is    *)
(* part of the file.  JS.minify and HTMLMinifier.minify are modelled by    *)
(* their removal of white space.  The final JS.minify may report an error  *)
(* or not for any spliced script.                                          *)
(***************************************************************************)
EXTENDS Integers, Sequences, FiniteSets, TLC

VARIABLES
    pc,                 \* where the glob callback stands
    files,              \* the files glob handed to the callback (their contents)
    canvasComponentsJs, \* the template script read from canvascomponents.js
    proc,               \* proc[i]: state of the call processComponent(files[i])
    results,            \* results[i]: what that call returned or threw
    outOfOrder,         \* whether a call settled before a call of an earlier file
    buildError,         \* the error the callback threw ("none" while it has not)
    fullJsStr,          \* the spliced script handed to the final minifier
    minifiedJs,         \* the result of the final JS.minify
    writes,             \* writes[a]: state of the writeFile of artifact a
    disk,               \* disk[a]: what this run wrote to artifact a
    log                 \* the console output, in order

vars == <<pc, files, canvasComponentsJs, proc, results, outOfOrder, buildError,
          fullJsStr, minifiedJs, writes, disk, log>>

----------------------------------------------------------------------------
(* Bounds of the model *)

\* the largest number of component files glob returns
MaxFiles == 2
\* the largest number of errors the CSS minifier reports for one style
MaxCssErrors == 2

----------------------------------------------------------------------------
(* Text *)

Placeholder == "/*${CANVAS_COMPONENTS}*/"
\* the piece that stands for the grave accent character, U+0060
Backtick == "U+0060"

\* the pieces that are not runs of [A-Za-z0-9_-]
NonWord ==
    { ":", ";", "{", "}", "(", ")", "[", "]", "<", ">", "/", "\\", "\"", "'",
      Backtick, "$", "&", "@", ".", ",", "=", "+", "*", "!", "#", "%", " ", "\n",
      Placeholder }

\* [\w-]+ : a run of word characters
IsWord(x) == x \notin NonWord

RECURSIVE FlattenRange(_, _, _)
\* the concatenation of the texts ss[a], ..., ss[b], by halves
FlattenRange(ss, a, b) ==
    IF a > b THEN <<>>
    ELSE IF a = b THEN ss[a]
    ELSE LET m == (a + b) \div 2
         IN  FlattenRange(ss, a, m) \o FlattenRange(ss, m + 1, b)

\* the concatenation of a sequence of texts
Flatten(ss) == FlattenRange(ss, 1, Len(ss))

\* Array.prototype.join: the texts of ss with sep between them
Join(ss, sep) ==
    Flatten([k \in 1..Len(ss) |-> IF k = 1 THEN ss[k] ELSE sep \o ss[k]])

\* the least member of a non-empty set of numbers, 0 for the empty set
MinOr0(S) == IF S = {} THEN 0 ELSE CHOOSE m \in S : \A n \in S : m <= n
\* the greatest member of a non-empty set of numbers, 0 for the empty set
MaxOr0(S) == -MinOr0({ -n : n \in S })

\* the pieces of s from index a to index b (empty when a > b)
Slice(s, a, b) == IF a > b THEN <<>> ELSE SubSeq(s, a, b)

----------------------------------------------------------------------------
(* The CSS property allow-list *)

allowedCssProps ==
    { "align-content", "align-items", "align-self", "background", "border",
      "border-radius", "clear", "clip", "color", "column-gap", "cursor",
      "direction", "display", "flex", "flex-basis", "flex-direction",
      "flex-flow", "flex-grow", "flex-shrink", "flex-wrap", "float", "font",
      "gap", "grid", "height", "justify-content", "justify-items",
      "justify-self", "left", "line-height", "list-style", "margin",
      "max-height", "max-width", "min-height", "min-width", "order",
      "overflow", "overflow-x", "overflow-y", "padding", "position",
      "place-content", "place-items", "place-self", "right", "row-gap",
      "text-align", "table-layout", "text-decoration", "text-indent", "top",
      "vertical-align", "visibility", "white-space", "width", "z-index",
      "zoom", "grid-area", "grid-auto-columns", "grid-auto-flow",
      "grid-auto-rows", "grid-column", "grid-gap", "grid-row",
      "grid-template", "grid-template-areas", "grid-template-columns",
      "grid-template-rows", "grid-column-end", "grid-column-gap",
      "grid-column-start", "grid-row-end", "grid-row-gap", "grid-row-start",
      "background-attachment", "background-color", "background-image",
      "background-position", "background-repeat", "background-position-x",
      "background-position-y", "border-bottom", "border-collapse",
      "border-color", "border-left", "border-right", "border-spacing",
      "border-style", "border-top", "border-width", "border-bottom-color",
      "border-bottom-style", "border-bottom-width", "border-left-color",
      "border-left-style", "border-left-width", "border-right-color",
      "border-right-style", "border-right-width", "border-top-color",
      "border-top-style", "border-top-width", "font-family", "font-size",
      "font-stretch", "font-style", "font-variant", "font-width",
      "list-style-image", "list-style-position", "list-style-type",
      "margin-bottom", "margin-left", "margin-right", "margin-top",
      "margin-offset", "padding-bottom", "padding-left", "padding-right",
      "padding-top" }

\* cssPropsRegex = /([\w-]+):[^;\n]+;?/g : the index of the first match of
\* the pattern in s at or after index from, 0 when there is none.  The match
\* starts at a word piece that is followed by ':' and by at least one piece
\* that is neither ';' nor a line break.
CssMatchStart(s, from) ==
    MinOr0({ p \in from..Len(s) :
                /\ IsWord(s[p])
                /\ p + 2 <= Len(s)
                /\ s[p + 1] = ":"
                /\ s[p + 2] \notin {";", "\n"} })

\* the index of the last piece of the match that starts at p: [^;\n]+ is
\* greedy and runs to the piece before the next ';' or line break (or to the
\* end of the text), and ;? takes a ';' that follows
CssMatchEnd(s, p) ==
    LET stop == MinOr0({ q \in (p + 2)..Len(s) : s[q] \in {";", "\n"} })
    IN  IF stop = 0 THEN Len(s)
        ELSE IF s[stop] = ";" THEN stop
        ELSE stop - 1

RECURSIVE CssPropMatches(_, _)
\* css.styles.matchAll(cssPropsRegex): the first capture group (propName) of
\* every match, in order, searching from index from
CssPropMatches(s, from) ==
    LET p == CssMatchStart(s, from)
    IN  IF p = 0 THEN <<>>
        ELSE <<s[p]>> \o CssPropMatches(s, CssMatchEnd(s, p) + 1)

\* the for loop over the matches: the first propName that is not in
\* allowedCssProps, as a sequence of at most one name
FirstDisallowed(s) ==
    LET names == CssPropMatches(s, 1)
        bad   == { k \in 1..Len(names) : names[k] \notin allowedCssProps }
    IN  IF bad = {} THEN <<>> ELSE <<names[MinOr0(bad)]>>

----------------------------------------------------------------------------
(* The style of a component and CSS.minify *)

(* A style source is given by its structure: a sequence of blocks, each a  *)
(* sequence of rules (selector, declarations) that stands at the top level *)
(* (query empty) or inside @media query { }, and by the errors the CSS     *)
(* minifier reports for it.                                                *)

\* one declaration as clean-css writes it: prop:value
RenderDecl(d) == <<d.prop, ":">> \o d.value

\* one rule as clean-css writes it: selector{decl;decl}, no ';' after the
\* last declaration and no white space
RenderRule(r) ==
    r.sel \o <<"{">>
          \o Join([k \in 1..Len(r.decls) |-> RenderDecl(r.decls[k])], <<";">>)
          \o <<"}">>

RenderRules(rs) == Flatten([k \in 1..Len(rs) |-> RenderRule(rs[k])])

RenderBlock(b) ==
    IF b.query = <<>> THEN RenderRules(b.rules)
    ELSE <<"@", "media", " ">> \o b.query \o <<"{">> \o RenderRules(b.rules)
                                \o <<"}">>

\* CSS.minify(source): the minified text and the errors reported
CssMinify(src) ==
    [ styles |-> Flatten([k \in 1..Len(src.blocks) |-> RenderBlock(src.blocks[k])]),
      errors |-> src.errors ]

----------------------------------------------------------------------------
(* The markup of a component *)

\* the index of the last piece of the line that holds index p
LineEnd(s, p) ==
    LET nl == MinOr0({ q \in p..Len(s) : s[q] = "\n" })
    IN  IF nl = 0 THEN Len(s) ELSE nl - 1

\* whether /class="(.*)transition(.*)"/ matches at index p: class=" stands
\* there, and on the same line a piece transition follows that has a double
\* quote after it ( . matches no line break)
ClassMatchesAt(s, p) ==
    /\ p + 2 <= Len(s)
    /\ s[p] = "class" /\ s[p + 1] = "=" /\ s[p + 2] = "\""
    /\ \E t \in (p + 3)..LineEnd(s, p) :
          /\ s[t] = "transition"
          /\ \E e \in (t + 1)..LineEnd(s, p) : s[e] = "\""

\* the first index at or after from where the pattern matches, 0 for none
ClassMatchStart(s, from) ==
    MinOr0({ p \in from..Len(s) : ClassMatchesAt(s, p) })

\* the closing double quote of the match at p: the second (.*) is greedy, so
\* it is the last double quote of the line
ClassMatchQuote(s, p) ==
    MaxOr0({ e \in (p + 3)..LineEnd(s, p) : s[e] = "\"" })

\* the piece transition of the match at p: the first (.*) is greedy, so it
\* is the last transition before the closing double quote
ClassMatchWord(s, p) ==
    MaxOr0({ t \in (p + 3)..(ClassMatchQuote(s, p) - 1) : s[t] = "transition" })

RECURSIVE ReplaceTransition(_, _)
\* originalHtml.replaceAll(/class="(.*)transition(.*)"/g, ...): every match,
\* left to right and not overlapping, is replaced by
\* class="<cg1>thumbnail<cg2>"; the text from index from on
ReplaceTransition(s, from) ==
    LET p == ClassMatchStart(s, from)
        e == ClassMatchQuote(s, p)
        t == ClassMatchWord(s, p)
    IN  IF p = 0 THEN Slice(s, from, Len(s))
        ELSE Slice(s, from, p - 1)
                \o <<"class", "=", "\"">> \o Slice(s, p + 3, t - 1)
                \o <<"thumbnail">> \o Slice(s, t + 1, e - 1) \o <<"\"">>
                \o ReplaceTransition(s, e + 1)

IsSpace(x) == x \in {" ", "\n"}

\* the first index at or after i that holds no white space, 0 for none
NextNonSpace(s, i) == MinOr0({ q \in i..Len(s) : ~IsSpace(s[q]) })

\* what HTMLMinifier.minify keeps of piece i: a run of white space is
\* dropped at the ends of the text and between two tags, and becomes one
\* space elsewhere
HtmlMinifyPiece(s, i) ==
    IF ~IsSpace(s[i]) THEN <<s[i]>>
    ELSE IF i = 1 \/ NextNonSpace(s, i) = 0 THEN <<>>
    ELSE IF IsSpace(s[i - 1]) THEN <<>>
    ELSE IF s[i - 1] = ">" /\ s[NextNonSpace(s, i)] = "<" THEN <<>>
    ELSE <<" ">>

\* HTMLMinifier.minify(html, {collapseWhitespace, removeComments}) on markup
\* without comments
HtmlMinify(s) == Flatten([i \in 1..Len(s) |-> HtmlMinifyPiece(s, i)])

----------------------------------------------------------------------------
(* JS.minify *)

\* whether piece q is a double quote that opens or closes a string literal:
\* one that an odd number of backslashes before it does not escape
IsDelimiter(s, q) ==
    /\ s[q] = "\""
    /\ LET d == MinOr0({ k \in 1..(q - 1) : s[q - k] # "\\" })
       IN  (IF d = 0 THEN q - 1 ELSE d - 1) % 2 = 0

\* the double quotes of s that open or close a string literal
Delimiters(s) == { q \in 1..Len(s) : IsDelimiter(s, q) }

\* whether piece i stands inside a double-quoted string literal
InLiteral(delims, i) == Cardinality({ q \in delims : q < i }) % 2 = 1

\* what uglify-js keeps of piece i, as far as the build depends on it: white
\* space outside string literals goes (one space stays between two words),
\* everything else is kept as it is
JsMinifyPiece(s, delims, i) ==
    IF ~IsSpace(s[i]) \/ InLiteral(delims, i) THEN <<s[i]>>
    ELSE IF i = 1 \/ NextNonSpace(s, i) = 0 THEN <<>>
    ELSE IF IsWord(s[i - 1]) /\ IsWord(s[NextNonSpace(s, i)]) THEN <<" ">>
    ELSE <<>>

JsMinifyPieces(s, delims) ==
    Flatten([i \in 1..Len(s) |-> JsMinifyPiece(s, delims, i)])

\* minify(source).code
JsMinifyCode(s) == JsMinifyPieces(s, Delimiters(s))

----------------------------------------------------------------------------
(* processComponent *)

\* JSON.stringify of a string: the quoted text with ", \ and line breaks
\* escaped
JsonString(s) ==
    <<"\"">>
    \o Flatten([k \in 1..Len(s) |->
                  IF s[k] = "\"" THEN <<"\\", "\"">>
                  ELSE IF s[k] = "\\" THEN <<"\\", "\\">>
                  ELSE IF s[k] = "\n" THEN <<"\\", "n">>
                  ELSE <<s[k]>>])
    \o <<"\"">>

\* one member of the JSON text of an object: "key":value
JsonMember(key, value) == <<"\"", key, "\"", ":">> \o JsonString(value)

\* JSON.stringify(item) of a component: the fields of config first (name,
\* when config has one), then style, script and html
JsonStringify(item) ==
    <<"{">>
    \o Join((IF item.hasName THEN <<JsonMember("name", item.name)>> ELSE <<>>)
            \o << JsonMember("style", item.style),
                  JsonMember("script", item.script),
                  JsonMember("html", item.html) >>,
            <<",">>)
    \o <<"}">>

NoError == [kind |-> "none", file |-> 0, detail |-> ""]
NoComponent ==
    [hasName |-> FALSE, name |-> <<>>, style |-> <<>>, script |-> <<>>, html |-> <<>>]

\* a call of processComponent that threw
Threw(kind, file, detail) ==
    [ok |-> FALSE, error |-> [kind |-> kind, file |-> file, detail |-> detail],
     component |-> NoComponent]

\* a call of processComponent that returned
Returned(component) == [ok |-> TRUE, error |-> NoError, component |-> component]

\* originalHtml.replaceAll(...) of the main section
TransformedHtml(f) == ReplaceTransition(f.main, 1)

\* css.errors.length > 1
CssErrorsReported(errors) == Len(errors) > 1

\* processComponent(files[i]) once the file f has been read: what the rest
\* of the function, which runs without a further await, returns or throws
ProcessComponent(i, f) ==
    LET css == CssMinify(IF f.hasStyle THEN [blocks |-> f.blocks, errors |-> f.errors]
                         ELSE [blocks |-> <<>>, errors |-> <<>>])
        bad == FirstDisallowed(css.styles)
        code == IF f.hasScript THEN JsMinifyCode(f.script) ELSE <<>>
    IN  IF ~f.hasConfig THEN Threw("TypeError", 0, "config")
        ELSE IF bad # <<>> THEN Threw("CssProperty", i, bad[1])
        ELSE IF CssErrorsReported(css.errors) THEN Threw("CssError", 0, css.errors[1])
        ELSE IF f.hasScript /\ f.jsError THEN Threw("JsError", 0, "script")
        ELSE IF ~f.hasMain THEN Threw("TypeError", 0, "main")
        ELSE Returned([ hasName |-> f.hasName,
                        name    |-> f.name,
                        style   |-> css.styles,
                        script  |-> code,
                        html    |-> HtmlMinify(TransformedHtml(f)) ])

----------------------------------------------------------------------------
(* The component files and templates the model draws *)

Decl(p, v) == [prop |-> p, value |-> v]
Rule(sel, decls) == [sel |-> sel, decls |-> decls]
TopLevel(rules) == [query |-> <<>>, rules |-> rules]
Media(query, rules) == [query |-> query, rules |-> rules]

\* the errors a style with n errors makes the CSS minifier report
CssErrorNames == <<"css-error-1", "css-error-2", "css-error-3", "css-error-4">>
CssErrors(n) == SubSeq(CssErrorNames, 1, n)

\* a{top:0}
StyleAllowed == <<TopLevel(<<Rule(<<"a">>, <<Decl("top", <<"0">>)>>)>>)>>
\* a{fill:red}
StyleFill == <<TopLevel(<<Rule(<<"a">>, <<Decl("fill", <<"red">>)>>)>>)>>
\* a{top:0}b{fill:red}
StyleFillSecondRule ==
    <<TopLevel(<< Rule(<<"a">>, <<Decl("top", <<"0">>)>>),
                  Rule(<<"b">>, <<Decl("fill", <<"red">>)>>) >>)>>
\* a:hover{top:0}
StyleHover ==
    <<TopLevel(<<Rule(<<"a", ":", "hover">>, <<Decl("top", <<"0">>)>>)>>)>>
\* .color:hover{fill:red}
StyleClassNamedColor ==
    <<TopLevel(<<Rule(<<".", "color", ":", "hover">>, <<Decl("fill", <<"red">>)>>)>>)>>
\* a{background:url(http://x);top:0}@media (max-width:9px){b{fill:red}}
StyleUrlAndMedia ==
    << TopLevel(<<Rule(<<"a">>,
                       << Decl("background",
                               <<"url", "(", "http", ":", "/", "/", "x", ")">>),
                          Decl("top", <<"0">>) >>)>>),
       Media(<<"(", "max-width", ":", "9px", ")">>,
             <<Rule(<<"b">>, <<Decl("fill", <<"red">>)>>)>>) >>
\* <p>hi</p>
MainPlain == <<"<", "p", ">", "hi", "<", "/", "p", ">">>
\* <a class="transition">x</a><b class="transition">y</b>
MainTwoOnLine ==
    << "<", "a", " ", "class", "=", "\"", "transition", "\"", ">", "x", "<", "/", "a", ">",
       "<", "b", " ", "class", "=", "\"", "transition", "\"", ">", "y", "<", "/", "b", ">" >>
\* <a class="big transition">x</a>
\* <b class="transition">y</b>
MainTwoLines ==
    << "<", "a", " ", "class", "=", "\"", "big", " ", "transition", "\"", ">", "x",
       "<", "/", "a", ">", "\n",
       "<", "b", " ", "class", "=", "\"", "transition", "\"", ">", "y", "<", "/", "b", ">" >>
\* <a class="x">transition "q"</a>
MainWordInText ==
    << "<", "a", " ", "class", "=", "\"", "x", "\"", ">", "transition", " ",
       "\"", "q", "\"", "<", "/", "a", ">" >>
\* <p>a&lt;b</p>
MainEntity == <<"<", "p", ">", "a", "&", "lt", ";", "b", "<", "/", "p", ">">>

\* f()
ScriptPlain == <<"f", "(", ")">>
\* s = t.replace(/a/, "<$&>")
ScriptDollar ==
    << "s", " ", "=", " ", "t", ".", "replace", "(", "/", "a", "/", ",", " ",
       "\"", "<", "$", "&", ">", "\"", ")" >>

\* a component file: a config with a name, a style, a script, a main section
Component(name, blocks, script, main) ==
    [ hasConfig |-> TRUE, hasName |-> TRUE, name |-> name,
      hasStyle |-> TRUE, blocks |-> blocks, errors |-> <<>>,
      hasScript |-> TRUE, script |-> script, jsError |-> FALSE,
      hasMain |-> TRUE, main |-> main ]

NameCard == <<"C", "a", "r", "d">>
NameLowerCard == <<"c", "a", "r", "d">>
NameBox == <<"B", "o", "x">>

Plain == Component(NameCard, StyleAllowed, ScriptPlain, MainPlain)

\* the contents of the component files glob can find
ComponentSources ==
    { Plain,
      Component(NameLowerCard, StyleFillSecondRule, ScriptDollar, MainTwoOnLine),
      Component(NameBox, StyleUrlAndMedia, ScriptPlain, MainEntity),
      Component(NameBox, StyleClassNamedColor, ScriptPlain, MainWordInText),
      Component(NameCard, StyleFill, ScriptPlain, MainPlain),
      Component(NameCard, StyleHover, ScriptPlain, MainPlain),
      [Plain EXCEPT !.jsError = TRUE],
      [Plain EXCEPT !.hasMain = FALSE, !.main = <<>>],
      [Plain EXCEPT !.hasConfig = FALSE, !.hasName = FALSE, !.name = <<>>],
      [Plain EXCEPT !.hasName = FALSE, !.name = <<>>,
                    !.hasStyle = FALSE, !.blocks = <<>>] }
    \cup { [Plain EXCEPT !.errors = CssErrors(n),
                         !.hasScript = FALSE, !.script = <<>>,
                         !.main = MainTwoLines] : n \in 1..MaxCssErrors }

\* the sequences of at most n members of S
RECURSIVE SeqsUpTo(_, _)
SeqsUpTo(S, n) ==
    IF n = 0 THEN {<<>>}
    ELSE LET shorter == SeqsUpTo(S, n - 1)
         IN  shorter \cup { Append(q, x) : q \in { r \in shorter : Len(r) = n - 1 }, x \in S }

\* var components = {/*${CANVAS_COMPONENTS}*/};
\* start(components);
TemplateTwoLines ==
    << "var", " ", "components", " ", "=", " ", "{", Placeholder, "}", ";", "\n",
       "start", "(", "components", ")", ";" >>
\* start({/*${CANVAS_COMPONENTS}*/})
TemplateCall == <<"start", "(", "{", Placeholder, "}", ")">>

\* the contents canvascomponents.js can have
Templates == { TemplateTwoLines, TemplateCall }

----------------------------------------------------------------------------
(* Serializing and splicing the components *)

\* String.prototype.toLowerCase on one character
LowerChar(c) ==
    CASE c = "A" -> "a"
      [] c = "B" -> "b"
      [] c = "C" -> "c"
      [] c = "D" -> "d"
      [] c = "E" -> "e"
      [] c = "F" -> "f"
      [] c = "G" -> "g"
      [] c = "H" -> "h"
      [] c = "I" -> "i"
      [] c = "J" -> "j"
      [] c = "K" -> "k"
      [] c = "L" -> "l"
      [] c = "M" -> "m"
      [] c = "N" -> "n"
      [] c = "O" -> "o"
      [] c = "P" -> "p"
      [] c = "Q" -> "q"
      [] c = "R" -> "r"
      [] c = "S" -> "s"
      [] c = "T" -> "t"
      [] c = "U" -> "u"
      [] c = "V" -> "v"
      [] c = "W" -> "w"
      [] c = "X" -> "x"
      [] c = "Y" -> "y"
      [] c = "Z" -> "z"
      [] OTHER -> c

\* item.name.toLowerCase(), the name given character by character
ToLowerCase(name) == [k \in 1..Len(name) |-> LowerChar(name[k])]

\* one element of the map: the lower-cased name in double quotes, a colon
\* and a space, then JSON.stringify(item)
SerializeItem(item) ==
    <<"\"">> \o ToLowerCase(item.name) \o <<"\"", ":", " ">> \o JsonStringify(item)

\* serializedComponents: the elements joined by ","
SerializeComponents(components) ==
    Join([k \in 1..Len(components) |-> SerializeItem(components[k])], <<",">>)

\* whether a replacement pattern ($$, $&, $ with a grave accent, $') starts at
\* piece i of the replacement string repl: a $ before one of the four
\* characters that is not itself the second character of a $$
PatternStartsAt(repl, i) ==
    /\ repl[i] = "$"
    /\ i < Len(repl)
    /\ repl[i + 1] \in {"$", "&", Backtick, "'"}
    /\ LET d == MinOr0({ k \in 1..(i - 1) : repl[i - k] # "$" })
       IN  (IF d = 0 THEN i - 1 ELSE d - 1) % 2 = 0

\* what String.prototype.replace inserts for piece i of the replacement
\* string: $$ gives $, $& the matched text, $ with a grave accent the text
\* before the match, $' the text after it; there are no capture groups, so
\* any other $ stands for itself
GetSubstitution(repl, i, matched, before, after) ==
    IF PatternStartsAt(repl, i)
    THEN CASE repl[i + 1] = "$" -> <<"$">>
           [] repl[i + 1] = "&" -> matched
           [] repl[i + 1] = Backtick -> before
           [] OTHER -> after
    ELSE IF i > 1 /\ PatternStartsAt(repl, i - 1) THEN <<>>
    ELSE <<repl[i]>>

\* str.replace(pattern, repl) for a pattern that is one piece: the first
\* occurrence of the pattern is replaced, a text without it is unchanged
StringReplace(str, pattern, repl) ==
    LET p == MinOr0({ q \in 1..Len(str) : str[q] = pattern })
        before == Slice(str, 1, p - 1)
        after  == Slice(str, p + 1, Len(str))
    IN  IF p = 0 THEN str
        ELSE before
             \o Flatten([i \in 1..Len(repl) |->
                           GetSubstitution(repl, i, <<pattern>>, before, after)])
             \o after

\* fullJsStr
SpliceComponents(template, serialized) ==
    StringReplace(template, Placeholder, serialized)

----------------------------------------------------------------------------
(* The artifacts *)

\* encodeURI on one piece: letters, digits and ; , / ? : @ & = + $ - _ . ! ~
\* * ' ( ) # are kept, every other character becomes its %XX escape
EncodeURIPiece(x) ==
    CASE x = "\"" -> "%22"
      [] x = "<" -> "%3C"
      [] x = ">" -> "%3E"
      [] x = "{" -> "%7B"
      [] x = "}" -> "%7D"
      [] x = "[" -> "%5B"
      [] x = "]" -> "%5D"
      [] x = "\\" -> "%5C"
      [] x = "%" -> "%25"
      [] x = " " -> "%20"
      [] x = "\n" -> "%0A"
      [] x = Backtick -> "%60"
      [] x = Placeholder -> "/*$%7BCANVAS_COMPONENTS%7D*/"
      [] OTHER -> x

encodeURI(s) == [k \in 1..Len(s) |-> EncodeURIPiece(s[k])]

createBookmarklet(js) ==
    encodeURI(<<"javascript", ":", "!", "function", "(", ")", "{">> \o js
              \o <<"}", "(", ")">>)

\* the text of the link and of its title (a grapes emoji and the two words)
LinkTitle == "U+1F347 Canvas Components"

\* bookmarkletHtml
BookmarkletHtml(bookmarkletJs) ==
    <<"<", "a", " ", "href", "=", "\"">> \o bookmarkletJs
    \o << "\"", " ", "title", "=", "\"", LinkTitle, "\"", ">", LinkTitle,
          "<", "/", "a", ">", "<", "p", ">",
          "Drag the link to the left into your bookmarks bar.",
          "<", "/", "p", ">" >>

Artifacts == {"bookmarklet", "bookmarklet.html", "canvascomponents.min.js"}

\* the data of the writeFile of artifact a, for the minified script given
ArtifactText(a, minifiedJsStr) ==
    CASE a = "bookmarklet" -> createBookmarklet(minifiedJsStr)
      [] a = "bookmarklet.html" -> BookmarkletHtml(createBookmarklet(minifiedJsStr))
      [] OTHER -> minifiedJsStr

----------------------------------------------------------------------------
(* The build: the callback of glob("components/*.html", ...) *)

Pending == [ok |-> FALSE, error |-> NoError, component |-> NoComponent]
NotMinified == [done |-> FALSE, error |-> FALSE, code |-> <<>>]
NotWritten == [written |-> FALSE, text |-> <<>>]

Message(msg, file) == [msg |-> msg, file |-> file]

Init ==
    /\ pc = "glob"
    /\ files = <<>>
    /\ canvasComponentsJs = <<>>
    /\ proc = <<>>
    /\ results = <<>>
    /\ outOfOrder = FALSE
    /\ buildError = NoError
    /\ fullJsStr = <<>>
    /\ minifiedJs = NotMinified
    /\ writes = [a \in Artifacts |-> "none"]
    /\ disk = [a \in Artifacts |-> NotWritten]
    /\ log = <<Message("Building components...", 0)>>

\* the callback throws: its promise rejects and nothing after the throw runs
Throw(kind, detail) ==
    /\ pc' = "failed"
    /\ buildError' = [kind |-> kind, file |-> 0, detail |-> detail]

\* glob reports an error: if (err) throw err
GlobError ==
    /\ pc = "glob"
    /\ Throw("GlobError", "")
    /\ UNCHANGED <<files, canvasComponentsJs, proc, results, outOfOrder, fullJsStr,
                   minifiedJs, writes, disk, log>>

\* glob hands the component files to the callback, which starts to read the
\* template
GlobFiles ==
    /\ pc = "glob"
    /\ \E fs \in SeqsUpTo(ComponentSources, MaxFiles) : files' = fs
    /\ pc' = "readTemplate"
    /\ UNCHANGED <<canvasComponentsJs, proc, results, outOfOrder, buildError,
                   fullJsStr, minifiedJs, writes, disk, log>>

\* fs.readFile("canvascomponents.js") rejects
ReadTemplateError ==
    /\ pc = "readTemplate"
    /\ Throw("ReadError", "canvascomponents.js")
    /\ UNCHANGED <<files, canvasComponentsJs, proc, results, outOfOrder, fullJsStr,
                   minifiedJs, writes, disk, log>>

\* the template is read; files.map(processComponent) calls processComponent
\* for every file, and each call logs and runs up to its await of readFile
ReadTemplate ==
    /\ pc = "readTemplate"
    /\ \E t \in Templates : canvasComponentsJs' = t
    /\ proc' = [i \in 1..Len(files) |-> "reading"]
    /\ results' = [i \in 1..Len(files) |-> Pending]
    /\ log' = log \o [i \in 1..Len(files) |-> Message("Building", i)]
    /\ pc' = "processing"
    /\ UNCHANGED <<files, outOfOrder, buildError, fullJsStr, minifiedJs, writes, disk>>

\* a catch that swallows the error of a rejected call
PromiseAllRejects_Swallowed(r) == FALSE

\* whether the await of Promise.all throws when a call settles with r: the
\* first promise that rejects rejects Promise.all, and the catch rethrows
PromiseAllRejects(r) == ~r.ok

\* results collected in the order the calls settle: r takes the first free
\* place of the array
StoreResult_ArrivalOrder(rs, i, r) ==
    [rs EXCEPT ![MinOr0({ k \in 1..Len(rs) : rs[k] = Pending })] = r]

\* Promise.all keeps the value of the i-th promise at index i of its array
StoreResult(rs, i, r) == [rs EXCEPT ![i] = r]

\* the call processComponent(files[i]) settles with r
Settle(i, r) ==
    /\ proc' = [proc EXCEPT ![i] = IF r.ok THEN "returned" ELSE "threw"]
    /\ results' = StoreResult(results, i, r)
    /\ outOfOrder' = (outOfOrder \/ \E j \in 1..(i - 1) : proc[j] = "reading")
    /\ IF pc = "processing" /\ PromiseAllRejects(r)
       THEN Throw("Error creating components", r.error.kind)
       ELSE UNCHANGED <<pc, buildError>>
    /\ UNCHANGED <<files, canvasComponentsJs, fullJsStr, minifiedJs, writes, disk, log>>

\* the file of call i is read and the rest of processComponent runs
ComponentRead(i) ==
    /\ proc[i] = "reading"
    /\ Settle(i, ProcessComponent(i, files[i]))

\* fs.readFile(filename) rejects in call i
ComponentReadError(i) ==
    /\ proc[i] = "reading"
    /\ Settle(i, Threw("ReadError", i, ""))

\* Promise.all resolves: every call has returned
AllResolved(states) == \A i \in 1..Len(states) : states[i] = "returned"

\* the array Promise.all resolves with
PromiseAllValues(rs) == [i \in 1..Len(rs) |-> rs[i].component]

\* item.name.toLowerCase() throws for a component whose config has no name
NameMissing(components) == \E k \in 1..Len(components) : ~components[k].hasName

\* the map over the components throws a TypeError
SerializeError ==
    /\ pc = "processing"
    /\ AllResolved(proc)
    /\ NameMissing(PromiseAllValues(results))
    /\ Throw("TypeError", "name")
    /\ UNCHANGED <<files, canvasComponentsJs, proc, results, outOfOrder, fullJsStr,
                   minifiedJs, writes, disk, log>>

\* the components are serialized and spliced into the template, and the
\* callback awaits fs.mkdir
Assemble ==
    /\ pc = "processing"
    /\ AllResolved(proc)
    /\ LET components == PromiseAllValues(results)
       IN  /\ ~NameMissing(components)
           /\ fullJsStr' = SpliceComponents(canvasComponentsJs,
                                            SerializeComponents(components))
    /\ log' = Append(log, Message("Successfully built all components.", 0))
    /\ pc' = "mkdir"
    /\ UNCHANGED <<files, canvasComponentsJs, proc, results, outOfOrder, buildError,
                   minifiedJs, writes, disk>>

\* fs.mkdir rejects
MkdirError ==
    /\ pc = "mkdir"
    /\ Throw("MkdirError", "dist/")
    /\ UNCHANGED <<files, canvasComponentsJs, proc, results, outOfOrder, fullJsStr,
                   minifiedJs, writes, disk, log>>

\* JS.minify(fullJsStr) reports an error (the spliced text is not a valid
\* script): if (minifiedJs.error) throw minifiedJs.error
MinifyError ==
    /\ pc = "mkdir"
    /\ minifiedJs' = [done |-> TRUE, error |-> TRUE, code |-> <<>>]
    /\ Throw("JsError", "fullJsStr")
    /\ UNCHANGED <<files, canvasComponentsJs, proc, results, outOfOrder, fullJsStr,
                   writes, disk, log>>

\* JS.minify(fullJsStr) succeeds and the three writeFile calls start
Minify ==
    /\ pc = "mkdir"
    /\ minifiedJs' = [done |-> TRUE, error |-> FALSE, code |-> JsMinifyCode(fullJsStr)]
    /\ writes' = [a \in Artifacts |-> "pending"]
    /\ pc' = "writing"
    /\ UNCHANGED <<files, canvasComponentsJs, proc, results, outOfOrder, buildError,
                   fullJsStr, disk, log>>

\* the writeFile of artifact a completes
WriteDone(a) ==
    /\ writes[a] = "pending"
    /\ writes' = [writes EXCEPT ![a] = "done"]
    /\ disk' = [disk EXCEPT ![a] = [written |-> TRUE,
                                    text |-> ArtifactText(a, minifiedJs.code)]]
    /\ UNCHANGED <<pc, files, canvasComponentsJs, proc, results, outOfOrder,
                   buildError, fullJsStr, minifiedJs, log>>

\* the writeFile of artifact a rejects: the first one to do so rejects the
\* Promise.all of the writes
WriteError(a) ==
    /\ writes[a] = "pending"
    /\ writes' = [writes EXCEPT ![a] = "failed"]
    /\ IF pc = "writing" THEN Throw("WriteError", a) ELSE UNCHANGED <<pc, buildError>>
    /\ UNCHANGED <<files, canvasComponentsJs, proc, results, outOfOrder, fullJsStr,
                   minifiedJs, disk, log>>

\* a wait that ends with the first write that is done
AllWritten_AnyWritten(ws) == \E a \in Artifacts : ws[a] = "done"

\* Promise.all of the writes resolves: every write is done
AllWritten(ws) == \A a \in Artifacts : ws[a] = "done"

\* the success message is logged and the callback returns
Finish ==
    /\ pc = "writing"
    /\ AllWritten(writes)
    /\ log' = Append(log, Message("Outputted bookmarklet", 0))
    /\ pc' = "done"
    /\ UNCHANGED <<files, canvasComponentsJs, proc, results, outOfOrder, buildError,
                   fullJsStr, minifiedJs, writes, disk>>

Next ==
    \/ GlobError
    \/ GlobFiles
    \/ ReadTemplateError
    \/ ReadTemplate
    \/ \E i \in 1..Len(proc) : ComponentRead(i)
    \/ \E i \in 1..Len(proc) : ComponentReadError(i)
    \/ SerializeError
    \/ Assemble
    \/ MkdirError
    \/ MinifyError
    \/ Minify
    \/ \E a \in Artifacts : WriteDone(a)
    \/ \E a \in Artifacts : WriteError(a)
    \/ Finish

Spec == Init /\ [][Next]_vars

----------------------------------------------------------------------------
(* What the properties below speak of *)

Calls == 1..Len(proc)

\* the call for file i has run the body of processComponent to its end
\* (returned or threw there, not in readFile)
Processed(i) == proc[i] # "reading" /\ results[i].error.kind # "ReadError"

Range(q) == { q[k] : k \in 1..Len(q) }

\* the properties the style of file f declares, in any rule of any block
DeclaredProps(f) ==
    IF ~f.hasStyle THEN {}
    ELSE UNION { UNION { { d.prop : d \in Range(r.decls) } : r \in Range(b.rules) } :
                 b \in Range(f.blocks) }

Spliced == \E k \in 1..Len(log) : log[k].msg = "Successfully built all components."
SuccessLogged == \E k \in 1..Len(log) : log[k].msg = "Outputted bookmarklet"
NothingWritten == \A a \in Artifacts : ~disk[a].written /\ writes[a] = "none"

----------------------------------------------------------------------------
(* C1 *)

\* C1: when processComponent fails for at least one component file, or the
\* final minification reports an error, the build fails and none of the
\* three artifact files is written (and no write is even started), whatever
\* the other calls do.
C1_StopOnFirstError ==
    ((\E i \in Calls : proc[i] = "threw") \/ minifiedJs.error)
        => /\ pc = "failed"
           /\ NothingWritten
           /\ ~SuccessLogged

\* one call has thrown and another call has returned after it
C1_Witness ==
    /\ pc = "failed"
    /\ outOfOrder
    /\ \E i, j \in Calls : i < j /\ proc[i] = "returned" /\ proc[j] = "threw"

----------------------------------------------------------------------------
(* C2 *)

\* C2: processComponent rejects, with an error that names the file and the
\* property, every component whose style declares a property outside
\* allowedCssProps; so every property of the style of a component that
\* processComponent returns is in allowedCssProps.
C2_AllowListComplete ==
    \A i \in Calls :
        /\ (Processed(i) /\ files[i].hasConfig
              /\ ~(DeclaredProps(files[i]) \subseteq allowedCssProps))
             => /\ results[i].error.kind = "CssProperty"
                /\ results[i].error.file = i
        /\ proc[i] = "returned" => DeclaredProps(files[i]) \subseteq allowedCssProps

\* a component is returned whose style declares a property outside the list
C2_Witness ==
    \E i \in Calls :
        proc[i] = "returned" /\ ~(DeclaredProps(files[i]) \subseteq allowedCssProps)

----------------------------------------------------------------------------
(* C3 *)

\* the value the object literal { "key": value, ... } built from the
\* serialized components holds under key: of several members with the same
\* key the last one stays
ObjectLookup(components, key) ==
    components[MaxOr0({ k \in 1..Len(components) :
                          ToLowerCase(components[k].name) = key })]

\* C3: on a successful build the lookup structure has one entry per
\* component file, keyed by the lower-cased name, and looking up the
\* lower-cased name of any component yields that component.
C3_LookupByName ==
    pc = "done" =>
        LET components == PromiseAllValues(results)
        IN  /\ Len(components) = Len(files)
            /\ \A i \in 1..Len(components) :
                  ObjectLookup(components, ToLowerCase(components[i].name))
                      = components[i]

\* a build succeeds with two different components whose names are equal
\* once lower-cased
C3_Witness ==
    /\ pc = "done"
    /\ \E i, j \in Calls :
          /\ i < j
          /\ results[i].component # results[j].component
          /\ ToLowerCase(results[i].component.name)
                = ToLowerCase(results[j].component.name)

----------------------------------------------------------------------------
(* C4 *)

CharRefs == {"lt", "gt", "amp", "quot"}
CharOfRef(name) ==
    CASE name = "lt" -> "<"
      [] name = "gt" -> ">"
      [] name = "amp" -> "&"
      [] OTHER -> "\""

\* whether a character reference &name; starts at piece i of s
CharRefAt(s, i) ==
    i + 2 <= Len(s) /\ s[i] = "&" /\ s[i + 1] \in CharRefs /\ s[i + 2] = ";"

\* the value an HTML parser gives an attribute written as s between double
\* quotes: the text with its character references replaced
AttributeValue(s) ==
    Flatten([i \in 1..Len(s) |->
               IF CharRefAt(s, i) THEN <<CharOfRef(s[i + 1])>>
               ELSE IF (i > 1 /\ CharRefAt(s, i - 1)) \/ (i > 2 /\ CharRefAt(s, i - 2))
                    THEN <<>>
               ELSE <<s[i]>>])

\* the href attribute of the anchor the text html starts with: what stands
\* between <a href=" and the next double quote, as an HTML parser reads it
HrefValue(html) ==
    LET close == MinOr0({ q \in 7..Len(html) : html[q] = "\"" })
    IN  AttributeValue(Slice(html, 7, close - 1))

\* C4: a successful build has written exactly the three artifacts;
\* canvascomponents.min.js holds the minified script M, bookmarklet holds
\* B = encodeURI("javascript:!function(){" + M + "}()"), and the href
\* attribute value of the anchor in bookmarklet.html is exactly B.
C4_ArtifactsConsistent ==
    pc = "done" =>
        /\ \A a \in Artifacts : disk[a].written
        /\ disk["canvascomponents.min.js"].text = minifiedJs.code
        /\ disk["bookmarklet"].text = createBookmarklet(minifiedJs.code)
        /\ SubSeq(disk["bookmarklet.html"].text, 1, 6)
              = <<"<", "a", " ", "href", "=", "\"">>
        /\ HrefValue(disk["bookmarklet.html"].text)
              = createBookmarklet(minifiedJs.code)

\* a build succeeds whose minified script holds a character reference
C4_Witness ==
    /\ pc = "done"
    /\ \E i \in 1..Len(minifiedJs.code) : CharRefAt(minifiedJs.code, i)

----------------------------------------------------------------------------
(* C5 *)

\* C5: the components are spliced into the template only after every call of
\* processComponent has returned; the final minification happens only after
\* the splice; no artifact write starts before the final minification has
\* succeeded; the success message is logged only after all three writes
\* have completed.
C5_StageOrdering ==
    /\ Spliced => AllResolved(proc) /\ Len(proc) = Len(files)
    /\ minifiedJs.done => Spliced
    /\ (\E a \in Artifacts : writes[a] # "none" \/ disk[a].written)
          => minifiedJs.done /\ ~minifiedJs.error
    /\ SuccessLogged => \A a \in Artifacts : writes[a] = "done" /\ disk[a].written

\* the success message is logged at the end of a build of two files
C5_Witness == SuccessLogged /\ pc = "done" /\ Len(files) >= 2

----------------------------------------------------------------------------
(* C6 *)

\* C6: whenever the CSS minifier reports at least one error for the style of
\* a component and the allow-list check passes, processComponent throws the
\* first reported error and returns no component.
C6_CssErrorPropagated ==
    \A i \in Calls :
        (/\ Processed(i)
         /\ files[i].hasConfig /\ files[i].hasStyle
         /\ Len(files[i].errors) >= 1
         /\ FirstDisallowed(CssMinify([blocks |-> files[i].blocks,
                                       errors |-> files[i].errors]).styles) = <<>>)
            => /\ proc[i] = "threw"
               /\ results[i].error.kind = "CssError"
               /\ results[i].error.detail = files[i].errors[1]

\* a component is returned for whose style the minifier reported an error
C6_Witness ==
    \E i \in Calls : proc[i] = "returned" /\ Len(files[i].errors) >= 1

----------------------------------------------------------------------------
(* C7 *)

\* the template with the first placeholder replaced by the text, character
\* for character
VerbatimSplice(template, text) ==
    LET p == MinOr0({ q \in 1..Len(template) : template[q] = Placeholder })
    IN  Slice(template, 1, p - 1) \o text \o Slice(template, p + 1, Len(template))

\* C7: the script handed to the final minifier is the template with the
\* placeholder replaced by the serialized components character for
\* character, and the template around the placeholder is unchanged.
C7_VerbatimSplice ==
    Spliced =>
        fullJsStr = VerbatimSplice(canvasComponentsJs,
                                   SerializeComponents(PromiseAllValues(results)))

\* components are spliced whose serialized text holds $&
C7_Witness ==
    /\ Spliced
    /\ LET t == SerializeComponents(PromiseAllValues(results))
       IN  \E k \in 1..(Len(t) - 1) : t[k] = "$" /\ t[k + 1] = "&"

----------------------------------------------------------------------------
(* C8 *)

\* C8: the allow-list error names only a property the style of the component
\* declares; a component whose style declares only allowed properties is
\* never rejected by the allow-list check.
C8_NoFalseRejection ==
    \A i \in Calls :
        results[i].error.kind = "CssProperty"
            => /\ results[i].error.detail \in DeclaredProps(files[i])
               /\ ~(DeclaredProps(files[i]) \subseteq allowedCssProps)

\* a component is rejected by the allow-list check
C8_Witness ==
    \E i \in Calls : results[i].error.kind = "CssProperty"

----------------------------------------------------------------------------
(* C9 *)

\* whether piece k of the markup s stands in the value of a class attribute:
\* class=" stands before it with no double quote in between
InClassValue(s, k) ==
    \E p \in 1..(k - 3) :
        /\ s[p] = "class" /\ s[p + 1] = "=" /\ s[p + 2] = "\""
        /\ \A q \in (p + 3)..k : s[q] # "\""

\* the markup with every class transition of a class attribute turned into
\* thumbnail and nothing else changed
ConvertedClasses(s) ==
    [k \in 1..Len(s) |->
        IF s[k] = "transition" /\ InClassValue(s, k) THEN "thumbnail" ELSE s[k]]

\* C9: in the markup of the main section every class transition inside a
\* class attribute is converted to thumbnail, and no text outside class
\* attribute values is changed.
C9_ClassConversion ==
    \A i \in Calls :
        proc[i] = "returned"
            => /\ TransformedHtml(files[i]) = ConvertedClasses(files[i].main)
               /\ results[i].component.html
                     = HtmlMinify(ConvertedClasses(files[i].main))

\* a component is returned whose main section holds the class transition
C9_Witness ==
    \E i \in Calls :
        /\ proc[i] = "returned"
        /\ \E k \in 1..Len(files[i].main) :
              files[i].main[k] = "transition" /\ InClassValue(files[i].main, k)

----------------------------------------------------------------------------
(* C10 *)

\* what processComponent gives for each file content at each place of the
\* file list, computed from the file alone
ResultOf == [i \in 1..MaxFiles, f \in ComponentSources |-> ProcessComponent(i, f)]

\* the script the build splices for the files, computed from the files alone
ExpectedFullJsStr ==
    SpliceComponents(canvasComponentsJs,
        SerializeComponents([i \in 1..Len(files) |-> ResultOf[i, files[i]].component]))

\* C10: whatever the order in which the calls of processComponent settle,
\* the result kept for a file is the result of processing that file alone,
\* the entries of the serialized structure stand in the order of the file
\* list, and the artifacts are those of that order.
C10_Deterministic ==
    /\ \A i \in Calls : Processed(i) => results[i] = ResultOf[i, files[i]]
    /\ Spliced => fullJsStr = ExpectedFullJsStr
    /\ (minifiedJs.done /\ ~minifiedJs.error)
          => /\ Spliced
             /\ minifiedJs.code = JsMinifyCode(fullJsStr)
    /\ \A a \in Artifacts :
          disk[a].written
              => /\ minifiedJs.done /\ ~minifiedJs.error
                 /\ disk[a].text = ArtifactText(a, minifiedJs.code)

\* a build of different components succeeds although a later file settled
\* before an earlier one
C10_Witness ==
    /\ pc = "done"
    /\ outOfOrder
    /\ \E i, j \in Calls : i < j /\ results[i] # results[j]

====
